---- MODULE Spec2Model ----
(***************************************************************************)
(* Model of the IoT models repository client: ModelsRepositoryClient       *)
(* (getModels and its three dependency resolution modes) and PseudoParser  *)
(* (expand, _expand, _getModelDependencies).  The DtmiResolver and the     *)
(* fetchers are not part of the sources at hand; they are modelled from    *)
(* the specification (sections 4.1-4.3) at their interface: a resolve call *)
(* is issued, stays outstanding, and later returns a map or throws.        *)
(*                                                                         *)
(* One step of the model is one turn of the JavaScript event loop: the     *)
(* code that runs from the moment an outstanding resolve settles (or an    *)
(* entry point is called) until every continuation has reached its next    *)
(* await on an outstanding resolve.                                        *)
(***************************************************************************)
EXTENDS Integers, Sequences, FiniteSets, TLC

VARIABLES
  client,         \* the ModelsRepositoryClient fields set by the constructor
  repo,           \* repository content: DTMI -> model document, Absent or Malformed
  expandedAvail,  \* DTMIs whose .expanded.json document exists in the repository
  slots,          \* the call slots of this behaviour (one client call runs in each)
  call,           \* per slot: the frame of the getModels / expand call running in it
  tasks,          \* per slot: the _expand invocations started by the call, in start order
  heap,           \* map objects (JavaScript objects used as DTMI -> model maps), by reference
  resolveLog,     \* per slot: every DtmiResolver.resolve call issued, in issue order
  writeCount,     \* per map object and key: how many times the key was assigned
  faults          \* transport faults injected since the last release of a slot

vars == <<client, repo, expandedAvail, slots, call, tasks, heap, resolveLog,
          writeCount, faults>>

(***************************************************************************)
(* Bounds of the model.                                                    *)
(***************************************************************************)
MaxInitial == 2   \* longest list of DTMIs / initial models passed to a call
MaxFaults == 1    \* transport faults injected between two releases of a slot
MaxTasks == 12    \* cap on the _expand invocations of one call
MaxContents == 2  \* longest `contents` of a parsed document
MaxExtends == 2   \* longest `extends` array of a parsed document

Dtmis == {"A", "B", "C", "D"}

(***************************************************************************)
(* JavaScript values.  undefined is the string "undefined" where the other *)
(* values of the field are strings, and a record of kind "undefined"       *)
(* where they are structured.                                              *)
(***************************************************************************)
Undefined == "undefined"
ObjectSchema == "[object Object]"   \* a schema that is an inline object, not a string

IsString(v) == v \notin {Undefined, ObjectSchema}
Truthy(v) == v \notin {Undefined, "false", ""}

\* The three values of `extends`, and its absence.
ExtUndefined == [kind |-> "undefined"]
ExtString(d) == [kind |-> "string", str |-> d]
ExtArray(items) == [kind |-> "array", items |-> items]
ExtObject(m) == [kind |-> "object", obj |-> m]

\* A contents element; type and schema are Undefined when the member is absent.
Element(type, schema) == [type |-> type, schema |-> schema]

\* A DTDL document: "@id", "extends", "contents" (<<>> when absent or empty).
Model(id, ext, contents) == [id |-> id, extends |-> ext, contents |-> contents]

\* An entry of the array _getModelDependencies returns: a string, or (pushed by
\* the recursive call) a nested array.
DepString(d) == [kind |-> "string", str |-> d]
DepArray(items) == [kind |-> "array", items |-> items]

RECURSIVE Join(_)
\* Array.prototype.join(","): how JavaScript turns an array into a property key.
Join(items) ==
  IF Len(items) = 0 THEN ""
  ELSE LET h == IF Head(items).kind = "string" THEN Head(items).str
                ELSE Join(Head(items).items)
       IN IF Len(items) = 1 THEN h ELSE h \o "," \o Join(Tail(items))

\* The property key `dependency in modelMap` looks up.
ToKey(dep) == IF dep.kind = "string" THEN dep.str ELSE Join(dep.items)

\* Mutant: duplicates are kept.
SetDedupeNone(xs, seen) == xs

RECURSIVE SetDedupe(_, _)
\* Array.from(new Set(xs)): first occurrences kept in order; strings are equal
\* by value, arrays only by identity (each pushed array is a fresh object).
SetDedupe(xs, seen) ==
  IF xs = <<>> THEN <<>>
  ELSE LET x == Head(xs)
       IN IF x.kind = "string" /\ x.str \in seen
          THEN SetDedupe(Tail(xs), seen)
          ELSE <<x>> \o SetDedupe(Tail(xs),
                                  IF x.kind = "string" THEN seen \cup {x.str} ELSE seen)

RECURSIVE ContentsDependencies(_)
\* psuedoParser.ts 65-78: the schema of every Component element, when a string.
ContentsDependencies(contents) ==
  IF contents = <<>> THEN <<>>
  ELSE LET element == Head(contents)
       IN (IF /\ Truthy(element.type)
              /\ IsString(element.type)
              /\ element.type = "Component"
              /\ Truthy(element.schema)
              /\ IsString(element.schema)
           THEN <<DepString(element.schema)>>
           ELSE <<>>) \o ContentsDependencies(Tail(contents))

RECURSIVE _getModelDependencies(_)
RECURSIVE ExtendsArrayDependencies(_)
\* psuedoParser.ts 84-90: a string element is pushed; for an object element the
\* ARRAY returned by the recursive call is pushed as one entry.
ExtendsArrayDependencies(items) ==
  IF items = <<>> THEN <<>>
  ELSE LET element == Head(items)
       IN (CASE element.kind = "string" -> <<DepString(element.str)>>
             [] element.kind = "object" ->
                  <<DepArray(_getModelDependencies(element.obj))>>
             [] OTHER -> <<>>) \o ExtendsArrayDependencies(Tail(items))

\* psuedoParser.ts 62-96.  An `extends` that is a single inline object is neither
\* a string nor an array: it contributes nothing.
_getModelDependencies(model) ==
  LET fromContents == ContentsDependencies(model.contents)
      fromExtends ==
        CASE model.extends.kind = "string" -> <<DepString(model.extends.str)>>
          [] model.extends.kind = "array" -> ExtendsArrayDependencies(model.extends.items)
          [] OTHER -> <<>>
  IN SetDedupe(fromContents \o fromExtends, {})

(***************************************************************************)
(* The repository and the inputs of a behaviour.                           *)
(***************************************************************************)
Absent == [kind |-> "absent"]          \* no document at the DTMI's path
Leaf(d) == Model(d, ExtUndefined, <<>>)
Inline(ext) == Model(Undefined, ext, <<>>)   \* an inline interface inside `extends`

\* The documents a repository of the model may hold for each DTMI.
DocsFor(d) ==
  CASE d = "A" ->
         { Model("A", ExtString("B"), <<>>),
           Model("A", ExtArray(<<ExtString("B"), ExtString("C")>>), <<>>),
           Model("A", ExtUndefined,
                 <<Element("Property", "C"), Element("Component", "D"),
                   Element("Component", "D"), Element("Component", ObjectSchema)>>),
           Model("A", ExtObject(Inline(ExtString("B"))), <<>>),
           Model("A", ExtArray(<<ExtString("B"), ExtObject(Inline(ExtString("C")))>>), <<>>) }
    [] d = "B" ->
         { Leaf("B"), Model("B", ExtString("A"), <<>>), Model("B", ExtString("D"), <<>>) }
    [] d = "C" ->
         { Model("C", ExtUndefined, <<Element("Component", "D")>>) }
    [] OTHER ->
         { Leaf(d), Absent }

Repos == { r \in [Dtmis -> UNION { DocsFor(d) : d \in Dtmis }] :
             \A d \in Dtmis : r[d] \in DocsFor(d) }

Present(r) == { d \in Dtmis : r[d] # Absent }

(***************************************************************************)
(* DtmiResolver and the fetchers, from the specification (4.1 - 4.3).      *)
(***************************************************************************)
\* 4.2: which failures of a fetcher are RestError instances.  The HTTP fetcher
\* reports a missing document (404) and a transport failure through the REST
\* pipeline; the filesystem fetcher does not use it.
Err(name, expanded, fetcher) ==
  [name |-> name, expanded |-> expanded,
   rest |-> (name \in {"NotFound", "TransportError"} /\ fetcher = "http")]
NoError == [name |-> "none", expanded |-> FALSE, rest |-> FALSE]

\* 3: the case-folded form of a DTMI; two DTMIs are equal iff these are.
CaseFold(d) ==
  CASE d = "A" -> "a"
    [] d = "B" -> "b"
    [] d = "C" -> "c"
    [] d = "D" -> "d"
    [] OTHER -> d

\* 4.1 toPath lower-cases every segment: a DTMI names the document of the
\* repository whose DTMI has the same case-folded form.
StoredAs(d) == CHOOSE k \in Dtmis : CaseFold(k) = CaseFold(d)
WellFormed(d) == \E k \in Dtmis : CaseFold(k) = CaseFold(d)

RECURSIVE ResolvedEntries(_, _, _)
\* 4.3 step 5: the map of requested DTMI -> document, in request order; a DTMI
\* requested twice has one entry.
ResolvedEntries(dtmis, r, seen) ==
  IF dtmis = <<>> THEN <<>>
  ELSE LET d == Head(dtmis).str
       IN IF CaseFold(d) \in seen THEN ResolvedEntries(Tail(dtmis), r, seen)
          ELSE <<[key |-> d, value |-> r[StoredAs(d)]]>> \o
               ResolvedEntries(Tail(dtmis), r, seen \cup {CaseFold(d)})

\* 4.3: DtmiResolver.resolve(dtmis, preferExpanded) against repository r, with or
\* without a transport fault hitting one of its fetches.
Resolve(dtmis, preferExpanded, r, avail, fetcher, fault) ==
  LET idx == 1..Len(dtmis)
      fail(e) == [ok |-> FALSE, error |-> e, entries |-> <<>>]
  IN CASE \E i \in idx : dtmis[i].kind # "string" \/ ~WellFormed(dtmis[i].str) ->
            fail(Err("InvalidDtmiFormat", FALSE, fetcher))
       [] OTHER ->
            IF fault THEN fail(Err("TransportError", preferExpanded, fetcher))
            ELSE IF preferExpanded /\ \E i \in idx : StoredAs(dtmis[i].str) \notin avail
              THEN fail(Err("NotFound", TRUE, fetcher))
            ELSE IF \E i \in idx : r[StoredAs(dtmis[i].str)] = Absent
              THEN fail(Err("NotFound", FALSE, fetcher))
            ELSE IF \E i \in idx : r[StoredAs(dtmis[i].str)].id = Undefined
              THEN fail(Err("MalformedModel", FALSE, fetcher))
            ELSE IF \E i \in idx : CaseFold(r[StoredAs(dtmis[i].str)].id) # CaseFold(dtmis[i].str)
              THEN fail(Err("IdentityMismatch", FALSE, fetcher))
            ELSE [ok |-> TRUE, error |-> NoError,
                  entries |-> ResolvedEntries(dtmis, r, {})]

(***************************************************************************)
(* ModelsRepositoryClient: construction.                                   *)
(***************************************************************************)
DEPENDENCY_MODE_DISABLED == "disabled"
DEPENDENCY_MODE_ENABLED == "enabled"
DEPENDENCY_MODE_TRY_FROM_EXPANDED == "tryFromExpanded"
Modes == {DEPENDENCY_MODE_DISABLED, DEPENDENCY_MODE_ENABLED,
          DEPENDENCY_MODE_TRY_FROM_EXPANDED}

\* The default repository is a remote (HTTP) endpoint.
DEFAULT_REPOSITORY_LOCATION == "https://default.repository"
HttpLocations == {DEFAULT_REPOSITORY_LOCATION}
FileLocations == {"file:///custom/repository"}

\* a || b
Or(a, b) == IF Truthy(a) THEN a ELSE b

\* The options a client of the model may be constructed with.
ClientOptions ==
  [repositoryLocation : {Undefined} \cup FileLocations,
   dependencyResolution : {Undefined} \cup Modes]

\* Mutant: the two defaults swapped.
CheckDefaultSwapped(customRepository) ==
  IF customRepository THEN "tryFromExpanded" ELSE "enabled"

_checkDefaultDependencyResolution(customRepository) ==
  IF customRepository THEN "enabled" ELSE "tryFromExpanded"

\* _createFetcher: a filesystem path or file URI gets the FilesystemFetcher, an
\* HTTP(S) endpoint the HttpFetcher.
_createFetcher(location) ==
  IF location \in FileLocations THEN "filesystem" ELSE "http"

\* The constructor; `options` is kept beside the fields for the claims to read.
Constructor(options) ==
  LET location == Or(options.repositoryLocation, DEFAULT_REPOSITORY_LOCATION)
  IN [_repositoryLocation |-> location,
      _dependencyResolution |->
        Or(options.dependencyResolution,
           _checkDefaultDependencyResolution(Truthy(options.repositoryLocation))),
      _fetcher |-> _createFetcher(location),
      options |-> options]

(***************************************************************************)
(* Map objects.                                                            *)
(***************************************************************************)
\* Below, an intermediate value v that is used several times is bound once, as
\*   CHOOSE r \in { body(x) : x \in {v} } : TRUE
\* which is body(v): a name defined by LET, or an operator argument, is computed
\* again at every use when TLC evaluates ENABLED.
EmptyMap == [k \in {} |-> Absent]
Put(m, k, v) == [x \in (DOMAIN m) \cup {k} |-> IF x = k THEN v ELSE m[x]]
\* Mutant: every expand call works on one and the same object.
NewRefShared(h) == 1

NewRef(h) == CHOOSE n \in 1..(Cardinality(DOMAIN h) + 1) :
               n \notin DOMAIN h /\ \A k \in 1..(n - 1) : k \in DOMAIN h

\* modelMap[key] = value on the object `ref`; cx carries the heap and the counts.
Assign(cx, ref, key, value) ==
  [cx EXCEPT !.heap = Put(cx.heap, ref, Put(cx.heap[ref], key, value)),
             !.writeCount =
               Put(cx.writeCount, ref,
                   Put(cx.writeCount[ref], key,
                       IF key \in DOMAIN cx.writeCount[ref]
                       THEN cx.writeCount[ref][key] + 1 ELSE 1))]

\* Mutant: the resolved models are not merged into the map.
AssignAllDropped(cx, ref, entries) == cx

RECURSIVE AssignAll(_, _, _)
\* psuedoParser.ts 51-53: every key of the resolved map is assigned.
AssignAll(cx, ref, entries) ==
  IF entries = <<>> THEN cx
  ELSE CHOOSE r \in { AssignAll(assigned, ref, Tail(entries)) :
                        assigned \in {Assign(cx, ref, Head(entries).key,
                                              Head(entries).value)} } : TRUE

MapOf(entries) ==
  [k \in { entries[i].key : i \in 1..Len(entries) } |->
     (CHOOSE e \in { entries[i] : i \in 1..Len(entries) } : e.key = k).value]

\* Object.keys(m).map(key => m[key]) of a resolved map
ValuesOf(entries) == [i \in 1..Len(entries) |-> entries[i].value]

(***************************************************************************)
(* PseudoParser.  The operators below transform a context cx: the heap,    *)
(* the write counts, and the tasks and the resolve log of one call slot.   *)
(***************************************************************************)
NoResult == [kind |-> "none"]
UndefinedResult == [kind |-> "undefined"]
MapResult(m) == [kind |-> "map", map |-> m]

\* One _expand invocation (an async call and its promise).
\*   resolving: awaiting resolve (attempt "first": line 43, "retry": line 46)
\*   waiting:   awaiting Promise.all of its children (line 58)
\*   done / failed: its promise is fulfilled / rejected
Task(parent, id, deps, status, ref, tfe) ==
  [parent |-> parent, model |-> id, deps |-> deps, attempt |-> "first",
   status |-> status, modelMap |-> ref, tryFromExpanded |-> tfe, error |-> NoError]

\* A logged resolve call: the arguments, and the _expand invocation that issued
\* it (0: getModels itself).
ResolveCall(dtmis, preferExpanded, task) ==
  [dtmis |-> dtmis, preferExpanded |-> preferExpanded, task |-> task]

\* Mutant: no filter, every dependency is resolved whether or not it is a key.
DependenciesUnfiltered(model, map) == _getModelDependencies(model)

\* psuedoParser.ts 36-38: the dependencies that are not keys of the map.
DependenciesToResolve(model, map) ==
  SelectSeq(_getModelDependencies(model), LAMBDA dependency : ToKey(dependency) \notin DOMAIN map)

\* psuedoParser.ts 33-43: _expand up to its first await.  With nothing to resolve
\* the invocation is over; otherwise resolve is called and awaited.
StartExpand(cx, model, ref, tfe, parent) ==
  LET dependenciesToResolve == DependenciesToResolve(model, cx.heap[ref])
      id == Len(cx.tasks) + 1
  IN IF Len(dependenciesToResolve) # 0
     THEN [cx EXCEPT
             !.tasks = Append(@, Task(parent, model.id, dependenciesToResolve,
                                      "resolving", ref, tfe)),
             !.log = Append(@, ResolveCall(dependenciesToResolve, tfe, id))]
     ELSE [cx EXCEPT
             !.tasks = Append(@, Task(parent, model.id, <<>>, "done", ref, tfe))]

RECURSIVE LaunchChildren(_, _, _, _, _)
\* psuedoParser.ts 54-57: _expand is called on every resolved model in turn; each
\* call runs to its first await before the next one starts.
LaunchChildren(cx, values, ref, tfe, parent) ==
  IF values = <<>> THEN cx
  ELSE CHOOSE r \in { LaunchChildren(started, Tail(values), ref, tfe, parent) :
                        started \in {StartExpand(cx, Head(values), ref, tfe, parent)} } :
         TRUE

RECURSIVE PropagateAny(_, _)
\* Mutant: an invocation is fulfilled as soon as one of its children is.
PropagateAny(ts, t) ==
  IF t = 0 THEN ts
  ELSE IF ts[t].status # "waiting" THEN ts
  ELSE LET kids == { u \in 1..Len(ts) : ts[u].parent = t }
       IN IF kids = {} \/ \E u \in kids : ts[u].status = "done"
          THEN CHOOSE r \in { PropagateAny(settled, ts[t].parent) :
                                settled \in {[ts EXCEPT ![t].status = "done"]} } : TRUE
          ELSE ts

RECURSIVE Propagate(_, _)
\* psuedoParser.ts 58-59: `await Promise.all(promiseList)` of invocation t.  It
\* rejects as soon as one child has failed and fulfils when all are done; then t
\* itself settles and its parent's Promise.all is looked at in turn.
Propagate(ts, t) ==
  IF t = 0 THEN ts
  ELSE IF ts[t].status # "waiting" THEN ts
  ELSE LET kids == { u \in 1..Len(ts) : ts[u].parent = t }
           failedKids == { u \in kids : ts[u].status = "failed" }
       IN IF failedKids # {}
          THEN CHOOSE r \in
                 { Propagate(settled, ts[t].parent) :
                     settled \in {[ts EXCEPT
                                     ![t].status = "failed",
                                     ![t].error = ts[CHOOSE u \in failedKids : TRUE].error]} } :
                 TRUE
          ELSE IF \A u \in kids : ts[u].status = "done"
          THEN CHOOSE r \in { Propagate(settled, ts[t].parent) :
                                settled \in {[ts EXCEPT ![t].status = "done"]} } : TRUE
          ELSE ts

\* psuedoParser.ts 43-58: the resolve awaited by invocation t has settled with
\* `outcome`.
ResumeExpand(cx, t, outcome) ==
  LET task == cx.tasks[t]
  IN IF outcome.ok
     THEN \* 51-58: merge, start the children, await them
          CHOOSE r \in
            { [launched EXCEPT !.tasks = Propagate(ts, t)] :
                <<launched, ts>> \in
                  { <<l, l.tasks>> :
                      l \in { LaunchChildren(waiting, ValuesOf(outcome.entries),
                                             task.modelMap, task.tryFromExpanded, t) :
                                waiting \in {[AssignAll(cx, task.modelMap, outcome.entries)
                                               EXCEPT !.tasks[t].status = "waiting"]} } } } :
            TRUE
     ELSE IF task.attempt = "first" /\ outcome.error.rest
     THEN \* 45-46: a RestError from the first attempt: resolve again, not expanded
          [cx EXCEPT !.tasks[t].attempt = "retry",
                     !.log = Append(@, ResolveCall(task.deps, "false", t))]
     ELSE \* 48, or a failure of the retry: the invocation throws
          CHOOSE r \in
            { [cx EXCEPT !.tasks = Propagate(ts, task.parent)] :
                ts \in {[cx.tasks EXCEPT ![t].status = "failed",
                                         ![t].error = outcome.error]} } : TRUE

IdleCall ==
  [op |-> "none", pc |-> "idle", dtmis |-> <<>>, dependencyResolution |-> Undefined,
   branch |-> "none", models |-> <<>>, i |-> 0, root |-> 0,
   tryFromExpanded |-> Undefined, expandedMap |-> 0,
   status |-> "none", result |-> NoResult, error |-> NoError]

\* The promise of the call settles: it returns `result` or throws `error`.
Return(frame, result) ==
  [frame EXCEPT !.pc = "done", !.status = "returned", !.result = result]
Throw(frame, error) ==
  [frame EXCEPT !.pc = "done", !.status = "failed", !.error = error]

RECURSIVE ExpandLoop(_, _, _)
\* psuedoParser.ts 21-30: the loop of expand from iteration i on, as far as it
\* runs without suspending.  Each iteration assigns the model under its @id (or
\* throws), calls _expand on it and awaits it; the loop goes on when that
\* invocation is already over, and expand returns the map after the last one.
\* The result is the context and the call frame.
ExpandLoop(cx, frame, i) ==
  IF i > Len(frame.models)
  THEN [cx |-> cx, frame |-> Return(frame, MapResult(cx.heap[frame.expandedMap]))]
  ELSE LET model == frame.models[i]
       IN IF model.id = Undefined
          THEN [cx |-> cx,
                frame |-> Throw([frame EXCEPT !.i = i],
                                [name |-> "MissingId", expanded |-> FALSE, rest |-> FALSE])]
          ELSE CHOOSE r \in
                 { LET root == Len(started.tasks)
                   IN IF started.tasks[root].status = "done"
                      THEN ExpandLoop(started, frame, i + 1)
                      ELSE [cx |-> started,
                            frame |-> [frame EXCEPT !.pc = "expand", !.i = i,
                                                    !.root = root]] :
                     started \in
                       { StartExpand(seeded, model, frame.expandedMap,
                                     frame.tryFromExpanded, 0) :
                           seeded \in {Assign(cx, frame.expandedMap, model.id, model)} } } :
                 TRUE

\* psuedoParser.ts 19-20: expand(models, tryFromExpanded) creates its map and
\* enters the loop.
StartExpandCall(cx, frame, models, tfe) ==
  LET ref == NewRef(cx.heap)
      fresh == [cx EXCEPT !.heap = Put(@, ref, EmptyMap),
                          !.writeCount = Put(@, ref, [k \in {} |-> 0])]
  IN CHOOSE r \in
       { ExpandLoop(created, entered, 1) :
           created \in {fresh},
           entered \in {[frame EXCEPT !.models = models, !.tryFromExpanded = tfe,
                                      !.expandedMap = ref, !.pc = "expand"]} } : TRUE

\* Mutant: expand goes on as soon as the awaited invocation has merged its
\* resolve, without waiting for the invocations it started.
AfterAwaitEarly(cx, frame) ==
  IF frame.pc = "expand" /\ frame.root # 0
  THEN CASE cx.tasks[frame.root].status \in {"done", "waiting"} ->
              ExpandLoop(cx, frame, frame.i + 1)
         [] cx.tasks[frame.root].status = "failed" ->
              [cx |-> cx, frame |-> Throw(frame, cx.tasks[frame.root].error)]
         [] OTHER -> [cx |-> cx, frame |-> frame]
  ELSE [cx |-> cx, frame |-> frame]

\* Mutant: a rejected invocation is taken for a fulfilled one.
AfterAwaitSwallowed(cx, frame) ==
  IF frame.pc = "expand" /\ frame.root # 0
       /\ cx.tasks[frame.root].status \in {"done", "failed"}
  THEN ExpandLoop(cx, frame, frame.i + 1)
  ELSE [cx |-> cx, frame |-> frame]

\* psuedoParser.ts 28: `await this._expand(...)` of the loop.  When the awaited
\* invocation has settled, a running expand goes on with the next iteration or
\* throws what the invocation threw.
AfterAwait(cx, frame) ==
  IF frame.pc = "expand" /\ frame.root # 0
  THEN CASE cx.tasks[frame.root].status = "done" -> ExpandLoop(cx, frame, frame.i + 1)
         [] cx.tasks[frame.root].status = "failed" ->
              [cx |-> cx, frame |-> Throw(frame, cx.tasks[frame.root].error)]
         [] OTHER -> [cx |-> cx, frame |-> frame]
  ELSE [cx |-> cx, frame |-> frame]

(***************************************************************************)
(* The state machine.                                                      *)
(***************************************************************************)
Seqs(S, n) == UNION { [1..k -> S] : k \in 1..n }

\* The DTMIs a caller asks for, and the two forms of getModels' first argument:
\* one string, or an array of strings.
RequestDtmis == {"A", "B"}
DtmiInputs ==
  { DepString(d) : d \in RequestDtmis } \cup
  { [kind |-> "array", items |-> s] :
      s \in Seqs({ DepString(d) : d \in RequestDtmis }, MaxInitial) }

\* options?.dependencyResolution of a getModels call
CallOptions == {Undefined} \cup Modes

\* The lists of models expand may be called with directly: documents of the
\* repository, and a document without @id.
InitialModelLists ==
  Seqs({ repo[d] : d \in RequestDtmis \cap Present(repo) } \cup {Inline(ExtString("B"))},
       MaxInitial)

Init ==
  /\ client \in { Constructor(o) : o \in ClientOptions }
  /\ repo \in Repos
  /\ expandedAvail \in {{}, Present(repo)}
  /\ slots = {1}
  /\ call = [c \in slots |-> IdleCall]
  /\ tasks = [c \in slots |-> <<>>]
  /\ resolveLog = [c \in slots |-> <<>>]
  /\ heap = [n \in {} |-> EmptyMap]
  /\ writeCount = [n \in {} |-> EmptyMap]
  /\ faults = 0

Outstanding(c) == { t \in 1..Len(tasks[c]) : tasks[c][t].status = "resolving" }

\* A slot takes a call when no call is running in it.
CanCall(c) == call[c].pc = "idle"

Cx(c) == [heap |-> heap, writeCount |-> writeCount,
          tasks |-> tasks[c], log |-> resolveLog[c]]

Commit(c, result) ==
  \E r \in {result} :
    /\ Len(r.cx.tasks) <= MaxTasks
    /\ heap' = r.cx.heap
    /\ writeCount' = r.cx.writeCount
    /\ tasks' = [tasks EXCEPT ![c] = r.cx.tasks]
    /\ resolveLog' = [resolveLog EXCEPT ![c] = r.cx.log]
    /\ call' = [call EXCEPT ![c] = r.frame]

\* A resolve settles with or without a transport fault.
Settle(fault) ==
  /\ fault => faults < MaxFaults
  /\ faults' = IF fault THEN faults + 1 ELSE faults

\* modelsRepositoryClient.ts 190-216: which branch a mode value selects.
Branch(dependencyResolution) ==
  IF dependencyResolution = DEPENDENCY_MODE_DISABLED THEN "disabled"
  ELSE IF dependencyResolution = DEPENDENCY_MODE_ENABLED THEN "enabled"
  ELSE IF dependencyResolution = DEPENDENCY_MODE_TRY_FROM_EXPANDED THEN "tryFromExpanded"
  ELSE "invalid"

\* Mutant: every branch asks for the expanded documents.
FirstResolveArgumentExpanded(branch) == "true"

\* modelsRepositoryClient.ts 193, 197, 205: the preferExpanded argument of the
\* resolve call of each branch.
FirstResolveArgument(branch) ==
  IF branch = "tryFromExpanded" THEN "true" ELSE Undefined

\* Mutant: the mode of the call is stored as the client's configured mode.
GetModelsStoring(c, input, option) ==
  LET dtmis == IF input.kind # "array" THEN <<input>> ELSE input.items
      dependencyResolution == Or(option, client._dependencyResolution)
      branch == Branch(dependencyResolution)
      frame == [IdleCall EXCEPT !.op = "getModels", !.dtmis = dtmis,
                                !.dependencyResolution = dependencyResolution,
                                !.branch = branch, !.status = "running",
                                !.pc = "resolve"]
      cx == Cx(c)
  IN /\ CanCall(c)
     /\ IF branch = "invalid"
        THEN Commit(c, [cx |-> cx,
                        frame |-> Throw(frame, [name |-> "EvalError", expanded |-> FALSE,
                                                rest |-> FALSE])])
        ELSE Commit(c, [cx |-> [cx EXCEPT !.log =
                                  <<ResolveCall(dtmis, FirstResolveArgument(branch), 0)>>],
                        frame |-> frame])
     /\ client' = [client EXCEPT !._dependencyResolution = dependencyResolution]
     /\ UNCHANGED <<repo, expandedAvail, slots, faults>>

\* modelsRepositoryClient.ts 183-216: getModels up to its first await.
GetModels(c, input, option) ==
  LET dtmis == IF input.kind # "array" THEN <<input>> ELSE input.items
      dependencyResolution == Or(option, client._dependencyResolution)
      branch == Branch(dependencyResolution)
      frame == [IdleCall EXCEPT !.op = "getModels", !.dtmis = dtmis,
                                !.dependencyResolution = dependencyResolution,
                                !.branch = branch, !.status = "running",
                                !.pc = "resolve"]
      cx == Cx(c)
  IN /\ CanCall(c)
     /\ IF branch = "invalid"
        THEN Commit(c, [cx |-> cx,
                        frame |-> Throw(frame, [name |-> "EvalError", expanded |-> FALSE,
                                                rest |-> FALSE])])
        ELSE Commit(c, [cx |-> [cx EXCEPT !.log =
                                  <<ResolveCall(dtmis, FirstResolveArgument(branch), 0)>>],
                        frame |-> frame])
     /\ UNCHANGED <<client, repo, expandedAvail, slots, faults>>

\* The outcome of the resolve call `rc` settling now.
Outcome(rc, fault) ==
  Resolve(rc.dtmis, Truthy(rc.preferExpanded), repo, expandedAvail, client._fetcher, fault)

\* modelsRepositoryClient.ts 193: the resolve of mode disabled settles.
DisabledResume(c, fault) ==
  LET outcome == Outcome(resolveLog[c][1], fault)
  IN /\ call[c].pc = "resolve" /\ call[c].branch = "disabled"
     /\ Settle(fault)
     /\ Commit(c, [cx |-> Cx(c),
                   frame |-> IF outcome.ok
                             THEN Return(call[c], MapResult(MapOf(outcome.entries)))
                             ELSE Throw(call[c], outcome.error)])
     /\ UNCHANGED <<client, repo, expandedAvail, slots>>

\* modelsRepositoryClient.ts 197-200: the resolve of mode enabled settles; the
\* resolved models are expanded (expand is called without tryFromExpanded).
EnabledResume(c, fault) ==
  LET outcome == Outcome(resolveLog[c][1], fault)
  IN /\ call[c].pc = "resolve" /\ call[c].branch = "enabled"
     /\ Settle(fault)
     /\ \E settled \in {outcome} :
          Commit(c, IF settled.ok
                    THEN CHOOSE r \in
                           { StartExpandCall(Cx(c), call[c], models, Undefined) :
                               models \in {ValuesOf(settled.entries)} } : TRUE
                    ELSE [cx |-> Cx(c), frame |-> Throw(call[c], settled.error)])
     /\ UNCHANGED <<client, repo, expandedAvail, slots>>

\* Mutant: the models of a successful expanded resolve are expanded again.
TryFromExpandedResumeExpanding(c, fault) ==
  /\ call[c].pc = "resolve" /\ call[c].branch = "tryFromExpanded"
  /\ Settle(fault)
  /\ \E settled \in {Outcome(resolveLog[c][1], fault)} :
       Commit(c, IF settled.ok
                 THEN CHOOSE r \in
                        { StartExpandCall(Cx(c), call[c], models, "true") :
                            models \in {ValuesOf(settled.entries)} } : TRUE
                 ELSE [cx |-> Cx(c), frame |-> Throw(call[c], settled.error)])
  /\ UNCHANGED <<client, repo, expandedAvail, slots>>

\* modelsRepositoryClient.ts 203-213, 218: the resolve of mode tryFromExpanded
\* settles.  A RestError is logged and dropped, and modelMap, never assigned, is
\* returned; any other error is thrown again.
TryFromExpandedResume(c, fault) ==
  LET outcome == Outcome(resolveLog[c][1], fault)
  IN /\ call[c].pc = "resolve" /\ call[c].branch = "tryFromExpanded"
     /\ Settle(fault)
     /\ Commit(c, [cx |-> Cx(c),
                   frame |-> IF outcome.ok
                             THEN Return(call[c], MapResult(MapOf(outcome.entries)))
                             ELSE IF outcome.error.rest
                             THEN Return(call[c], UndefinedResult)
                             ELSE Throw(call[c], outcome.error)])
     /\ UNCHANGED <<client, repo, expandedAvail, slots>>

\* psuedoParser.ts 19-31: expand called directly, up to its first await.
Expand(c, models, tfe) ==
  /\ CanCall(c)
  /\ Commit(c, StartExpandCall(Cx(c),
                               [IdleCall EXCEPT !.op = "expand", !.status = "running"],
                               models, tfe))
  /\ UNCHANGED <<client, repo, expandedAvail, slots, faults>>

\* The last resolve call issued by invocation t.
LastResolveOf(c, t) ==
  LET mine == { k \in 1..Len(resolveLog[c]) : resolveLog[c][k].task = t }
  IN resolveLog[c][CHOOSE k \in mine : \A j \in mine : j <= k]

\* psuedoParser.ts 43-59, then 28-30: the resolve awaited by invocation t settles;
\* _expand goes on, and with it whatever was awaiting it, up to expand itself.
ExpandResume(c, t, fault) ==
  /\ t \in Outstanding(c)
  /\ Settle(fault)
  /\ \E outcome \in {Outcome(LastResolveOf(c, t), fault)} :
       \E resumed \in {ResumeExpand(Cx(c), t, outcome)} :
         Commit(c, AfterAwait(resumed, call[c]))
  /\ UNCHANGED <<client, repo, expandedAvail, slots>>

\* The caller is done with the settled call of slot c, none of whose resolves is
\* outstanding any more: the promise, the invocations and the map object become
\* unreachable, and the slot is free for the next call.
Release(c) ==
  LET live == (DOMAIN heap) \ {call[c].expandedMap}
  IN /\ call[c].pc = "done"
     /\ Outstanding(c) = {}
     /\ call' = [call EXCEPT ![c] = IdleCall]
     /\ tasks' = [tasks EXCEPT ![c] = <<>>]
     /\ resolveLog' = [resolveLog EXCEPT ![c] = <<>>]
     /\ heap' = [n \in live |-> heap[n]]
     /\ writeCount' = [n \in live |-> writeCount[n]]
     /\ faults' = 0
     /\ UNCHANGED <<client, repo, expandedAvail, slots>>

Next ==
  \/ \E c \in slots, input \in DtmiInputs, option \in CallOptions :
       GetModels(c, input, option)
  \/ \E c \in slots, models \in InitialModelLists, tfe \in {"true", "false"} :
       Expand(c, models, tfe)
  \/ \E c \in slots, fault \in BOOLEAN : DisabledResume(c, fault)
  \/ \E c \in slots, fault \in BOOLEAN : EnabledResume(c, fault)
  \/ \E c \in slots, fault \in BOOLEAN : TryFromExpandedResume(c, fault)
  \/ \E c \in slots, t \in 1..MaxTasks, fault \in BOOLEAN : ExpandResume(c, t, fault)
  \/ \E c \in slots : Release(c)

Spec == Init /\ [][Next]_vars

\* A resolve call that is in flight completes: the one getModels awaits, or the
\* one some _expand invocation awaits.
ResolveSettles ==
  \E c \in slots, fault \in BOOLEAN :
    \/ DisabledResume(c, fault)
    \/ EnabledResume(c, fault)
    \/ TryFromExpandedResume(c, fault)
    \/ \E t \in 1..MaxTasks : ExpandResume(c, t, fault)

FairSpec == Spec /\ WF_vars(ResolveSettles)

(***************************************************************************)
(* The parser on its own: expand of one document drawn from the shapes     *)
(* _getModelDependencies distinguishes, against one repository.            *)
(***************************************************************************)
SeqsFromEmpty(S, n) == {<<>>} \cup Seqs(S, n)

\* contents elements: Components with a string and with an object schema, an
\* element of another @type, an element without @type
ParseElements ==
  { Element("Component", "B"), Element("Component", "C"),
    Element("Component", ObjectSchema), Element("Property", "B"),
    Element(Undefined, "B") }

\* inline interfaces inside `extends`
ParseInlines ==
  { Inline(ExtString("C")),
    Model(Undefined, ExtUndefined, <<Element("Component", "D")>>) }

ParseExtends ==
  {ExtUndefined, ExtString("B"), ExtString("C")}
    \cup { ExtObject(m) : m \in ParseInlines }
    \cup { ExtArray(items) :
             items \in Seqs({ExtString("B"), ExtString("C")}
                              \cup { ExtObject(m) : m \in ParseInlines },
                            MaxExtends) }

ParseModels ==
  { Model("A", ext, contents) :
      ext \in ParseExtends, contents \in SeqsFromEmpty(ParseElements, MaxContents) }

ParseRepo ==
  [d \in Dtmis |->
     CASE d = "A" -> Model("A", ExtString("B"), <<>>)
       [] d = "C" -> Model("C", ExtUndefined, <<Element("Component", "D")>>)
       [] OTHER -> Leaf(d)]

ParseInit ==
  /\ client = Constructor([repositoryLocation |-> Undefined,
                           dependencyResolution |-> Undefined])
  /\ repo = ParseRepo
  /\ expandedAvail = {}
  /\ slots = {1}
  /\ call = [c \in slots |-> IdleCall]
  /\ tasks = [c \in slots |-> <<>>]
  /\ resolveLog = [c \in slots |-> <<>>]
  /\ heap = [n \in {} |-> EmptyMap]
  /\ writeCount = [n \in {} |-> EmptyMap]
  /\ faults = 0

ParseNext ==
  \/ \E c \in slots, model \in ParseModels : Expand(c, <<model>>, "false")
  \/ \E c \in slots, t \in 1..MaxTasks : ExpandResume(c, t, FALSE)
  \/ \E c \in slots : Release(c)

ParseSpec == ParseInit /\ [][ParseNext]_vars

(***************************************************************************)
(* Two expand calls in flight on the same PseudoParser.                    *)
(***************************************************************************)
ConcurrentRepos ==
  { r \in Repos :
      /\ r["A"] \in { Model("A", ExtString("B"), <<>>),
                       Model("A", ExtArray(<<ExtString("B"), ExtString("C")>>), <<>>) }
      /\ r["D"] # Absent }

ConcurrentInit ==
  /\ client = Constructor([repositoryLocation |-> Undefined,
                           dependencyResolution |-> Undefined])
  /\ repo \in ConcurrentRepos
  /\ expandedAvail = {}
  /\ slots = {1, 2}
  /\ call = [c \in slots |-> IdleCall]
  /\ tasks = [c \in slots |-> <<>>]
  /\ resolveLog = [c \in slots |-> <<>>]
  /\ heap = [n \in {} |-> EmptyMap]
  /\ writeCount = [n \in {} |-> EmptyMap]
  /\ faults = 0

ConcurrentNext ==
  \/ \E c \in slots, d \in RequestDtmis : Expand(c, <<repo[d]>>, "false")
  \/ \E c \in slots, t \in 1..MaxTasks : ExpandResume(c, t, FALSE)
  \/ \E c \in slots : Release(c)

ConcurrentSpec == ConcurrentInit /\ [][ConcurrentNext]_vars

(***************************************************************************)
(* Documents that name a dependency in another letter case than the @id    *)
(* of the document it denotes.                                             *)
(***************************************************************************)
CaseRepos ==
  { r \in [Dtmis -> UNION { DocsFor(d) : d \in Dtmis }
                      \cup { Model("A", ExtString("b"), <<>>),
                             Model("B", ExtString("a"), <<>>) }] :
      /\ r["A"] \in { Model("A", ExtString("B"), <<>>), Model("A", ExtString("b"), <<>>) }
      /\ r["B"] \in { Leaf("B"), Model("B", ExtString("A"), <<>>),
                       Model("B", ExtString("a"), <<>>) }
      /\ r["C"] \in DocsFor("C")
      /\ r["D"] = Leaf("D") }

CaseInit ==
  /\ client \in { Constructor(o) : o \in ClientOptions }
  /\ repo \in CaseRepos
  /\ expandedAvail = {}
  /\ slots = {1}
  /\ call = [c \in slots |-> IdleCall]
  /\ tasks = [c \in slots |-> <<>>]
  /\ resolveLog = [c \in slots |-> <<>>]
  /\ heap = [n \in {} |-> EmptyMap]
  /\ writeCount = [n \in {} |-> EmptyMap]
  /\ faults = 0

CaseNext ==
  \/ \E c \in slots, models \in Seqs({ repo[d] : d \in RequestDtmis }, MaxInitial) :
       Expand(c, models, "false")
  \/ \E c \in slots, t \in 1..MaxTasks, fault \in BOOLEAN : ExpandResume(c, t, fault)
  \/ \E c \in slots : Release(c)

CaseSpec == CaseInit /\ [][CaseNext]_vars

(***************************************************************************)
(* The synchronous PseudoParser (src/unnamed/part_001).  expand runs to    *)
(* its end in one step: the resolver is called and returns in place.  The  *)
(* operators transform a run r: the context and the error thrown, if any.  *)
(* The resolved value is taken to have both the entries the spread copies  *)
(* and the values() the loop iterates.                                     *)
(***************************************************************************)
RECURSIVE SyncExpandModel(_, _, _)
RECURSIVE SyncExpandEach(_, _, _)

\* part_001 36-38: _expand is called on every resolved model with the map the
\* variable modelMap refers to; an exception ends the loop.
SyncExpandEach(r, values, ref) ==
  IF values = <<>> \/ r.error # NoError THEN r
  ELSE SyncExpandEach(SyncExpandModel(r, Head(values), ref), Tail(values), ref)

\* part_001 26-40: _expand(model, modelMap).  Line 35 assigns to the parameter
\* a new object, the spread of the map it was given and of the resolved one;
\* the object `ref` the caller passed is not written.
SyncExpandModel(r, model, ref) ==
  LET dependenciesToResolve == DependenciesToResolve(model, r.cx.heap[ref])
      resolved == Resolve(dependenciesToResolve, FALSE, repo, expandedAvail,
                          client._fetcher, FALSE)
      called == [r.cx EXCEPT !.log = Append(@, ResolveCall(dependenciesToResolve,
                                                            Undefined, 0))]
      modelMap == NewRef(called.heap)
      copied == [called EXCEPT !.heap = Put(@, modelMap, called.heap[ref]),
                               !.writeCount = Put(@, modelMap, [k \in {} |-> 0])]
  IN IF Len(dependenciesToResolve) = 0 THEN r
     ELSE IF ~resolved.ok THEN [cx |-> called, error |-> resolved.error]
     ELSE SyncExpandEach([cx |-> AssignAll(copied, modelMap, resolved.entries),
                          error |-> NoError],
                         ValuesOf(resolved.entries), modelMap)

RECURSIVE SyncExpandLoop(_, _, _)
\* part_001 18-21: models.forEach: the model is assigned under its @id, whatever
\* it is, and _expand is called on it with expandedMap.
SyncExpandLoop(r, models, ref) ==
  IF models = <<>> \/ r.error # NoError THEN r
  ELSE SyncExpandLoop(
         SyncExpandModel([r EXCEPT !.cx = Assign(@, ref, Head(models).id, Head(models))],
                         Head(models), ref),
         Tail(models), ref)

\* part_001 15-24: expand(models).  The objects _expand created are unreachable
\* when it returns; expandedMap is what the caller gets.
SyncExpand(c, models) ==
  LET expandedMap == NewRef(heap)
      cx == [Cx(c) EXCEPT !.heap = Put(@, expandedMap, EmptyMap),
                          !.writeCount = Put(@, expandedMap, [k \in {} |-> 0])]
      frame == [IdleCall EXCEPT !.op = "expand", !.models = models,
                                !.expandedMap = expandedMap]
      reachable == (DOMAIN heap) \cup {expandedMap}
  IN /\ CanCall(c)
     /\ \E r \in {SyncExpandLoop([cx |-> cx, error |-> NoError], models, expandedMap)} :
          Commit(c, [cx |-> [r.cx EXCEPT !.heap = [n \in reachable |-> r.cx.heap[n]],
                                         !.writeCount = [n \in reachable |->
                                                           r.cx.writeCount[n]]],
                     frame |-> IF r.error = NoError
                               THEN Return(frame, MapResult(r.cx.heap[expandedMap]))
                               ELSE Throw(frame, r.error)])
     /\ UNCHANGED <<client, repo, expandedAvail, slots, faults>>

SyncNext ==
  \/ \E c \in slots, models \in InitialModelLists : SyncExpand(c, models)
  \/ \E c \in slots : Release(c)

SyncSpec == Init /\ [][SyncNext]_vars

(***************************************************************************)
(* Notions the claims are stated with.                                     *)
(***************************************************************************)
Range(f) == { f[x] : x \in DOMAIN f }

RECURSIVE Dependencies(_)
\* The direct dependencies of a document as the specification defines them
\* (4.4 step 2): the string schema of every Component, every string in `extends`,
\* and the dependencies of every inline object in `extends`, be it the single
\* value or an element of the sequence.
Dependencies(model) ==
  LET ofValue(v) == CASE v.kind = "string" -> {v.str}
                      [] v.kind = "object" -> Dependencies(v.obj)
                      [] OTHER -> {}
  IN { model.contents[i].schema :
         i \in { j \in 1..Len(model.contents) :
                   /\ model.contents[j].type = "Component"
                   /\ IsString(model.contents[j].schema) } }
     \cup (IF model.extends.kind = "array"
           THEN UNION { ofValue(model.extends.items[i]) :
                          i \in 1..Len(model.extends.items) }
           ELSE ofValue(model.extends))

\* The strings among the entries _getModelDependencies returns for a document.
StringDependencies(model) ==
  { e.str : e \in { x \in Range(_getModelDependencies(model)) : x.kind = "string" } }

RECURSIVE ReachableFrom(_)
\* The DTMIs reachable from the set S through the documents of the repository.
ReachableFrom(S) ==
  LET next == S \cup UNION { Dependencies(repo[d]) : d \in S \cap Present(repo) }
  IN IF next = S THEN S ELSE ReachableFrom(next)

\* Every dependency of every document of the map is a key of the map.
Closed(m) == \A k \in DOMAIN m : Dependencies(m[k]) \subseteq DOMAIN m

Ids(models) == { models[i].id : i \in 1..Len(models) }
Requested(c) == { call[c].dtmis[i].str : i \in 1..Len(call[c].dtmis) }

\* The DTMIs of the resolve calls issued by _expand invocation t of slot c.
ResolvedBy(c, t) == { d.str : d \in { x \in Range(tasks[c][t].deps) : x.kind = "string" } }
\* The _expand invocations of slot c that passed DTMI d to the resolver.
Resolvers(c, d) == { t \in 1..Len(tasks[c]) : d \in ResolvedBy(c, t) }
\* The resolve calls of slot c that include DTMI d.
ResolveCallsWith(c, d) ==
  { k \in 1..Len(resolveLog[c]) :
      \E i \in 1..Len(resolveLog[c][k].dtmis) :
        /\ resolveLog[c][k].dtmis[i].kind = "string"
        /\ resolveLog[c][k].dtmis[i].str = d }

\* The expand call of slot c, called directly or by getModels in mode enabled,
\* has returned its map.
ExpandReturned(c) ==
  /\ call[c].status = "returned"
  /\ call[c].expandedMap # 0

\* What a settled call hands its caller.
Settled(c) == call[c].pc = "done"
OutcomeOfCall(frame) ==
  [status |-> frame.status, result |-> frame.result, error |-> frame.error.name]

\* The resolve call getModels itself issued in slot c, settling as it does in
\* this behaviour: a fault was injected into it iff one was injected at all.
FirstOutcome(c) == Outcome(resolveLog[c][1], faults > 0)

RECURSIVE RunExpand(_)
\* An expand call run to its end against the repository, no transport fault
\* occurring, the outstanding resolves settling oldest invocation first.
RunExpand(r) ==
  LET out == { t \in 1..Len(r.cx.tasks) : r.cx.tasks[t].status = "resolving" }
  IN IF r.frame.pc = "done" \/ out = {} THEN r.frame
     ELSE LET t == CHOOSE u \in out : \A v \in out : u <= v
              mine == { k \in 1..Len(r.cx.log) : r.cx.log[k].task = t }
              rc == r.cx.log[CHOOSE k \in mine : \A j \in mine : j <= k]
          IN RunExpand(AfterAwait(ResumeExpand(r.cx, t, Outcome(rc, FALSE)), r.frame))

\* What getModels in mode enabled hands its caller for `dtmis`, absent faults.
EnabledOutcome(dtmis) ==
  LET first == Outcome(ResolveCall(dtmis, Undefined, 0), FALSE)
      frame == [IdleCall EXCEPT !.op = "getModels", !.dtmis = dtmis,
                                !.status = "running", !.pc = "resolve"]
      cx == [heap |-> [n \in {} |-> EmptyMap], writeCount |-> [n \in {} |-> EmptyMap],
             tasks |-> <<>>, log |-> <<>>]
  IN OutcomeOfCall(IF first.ok
                   THEN RunExpand(StartExpandCall(cx, frame, ValuesOf(first.entries),
                                                  Undefined))
                   ELSE Throw(frame, first.error))

(***************************************************************************)
(* The claims.                                                             *)
(***************************************************************************)

\* C1: when the resolve of the expanded documents fails because an expanded
\* document is absent (NotFound), getModels in mode tryFromExpanded falls back
\* to the enabled path and hands its caller what getModels in mode enabled
\* hands it for the same DTMIs and the same repository.
C1_FallbackEqualsEnabled ==
  \A c \in slots :
    ( /\ Settled(c)
      /\ call[c].branch = "tryFromExpanded"
      /\ faults = 0
      /\ ~FirstOutcome(c).ok
      /\ FirstOutcome(c).error.name = "NotFound"
      /\ FirstOutcome(c).error.expanded )
    => OutcomeOfCall(call[c]) = EnabledOutcome(call[c].dtmis)

\* C2: when expand (called directly or by getModels in mode enabled) returns a
\* map, the initial models are keys of it and so is every DTMI reachable from
\* them through `extends` and Component `schema`: the map is closed under
\* dependencies.
C2_ClosureComplete ==
  \A c \in slots :
    ExpandReturned(c) =>
      /\ Ids(call[c].models) \subseteq DOMAIN call[c].result.map
      /\ Closed(call[c].result.map)

\* C3: in mode tryFromExpanded, when the resolve of the expanded documents fails
\* with anything but NotFound of an expanded document, getModels throws that
\* failure: it does not return.
C3_OtherFailuresPropagate ==
  \A c \in slots :
    ( /\ Settled(c)
      /\ call[c].branch = "tryFromExpanded"
      /\ ~FirstOutcome(c).ok
      /\ ~(FirstOutcome(c).error.name = "NotFound" /\ FirstOutcome(c).error.expanded) )
    => /\ call[c].status = "failed"
       /\ call[c].error = FirstOutcome(c).error

\* C4: in mode disabled getModels issues exactly one resolve, of the requested
\* DTMIs and not expanded, never calls expand, and returns the map of that
\* resolve, whose keys are the requested DTMIs; when the resolve fails the call
\* throws its error and returns no map.
C4_DisabledResolvesOnly ==
  \A c \in slots :
    call[c].branch = "disabled" =>
      /\ Len(resolveLog[c]) = 1
      /\ resolveLog[c][1].dtmis = call[c].dtmis
      /\ ~Truthy(resolveLog[c][1].preferExpanded)
      /\ tasks[c] = <<>>
      /\ call[c].expandedMap = 0
      /\ Settled(c) =>
           IF FirstOutcome(c).ok
           THEN /\ call[c].status = "returned"
                /\ call[c].result.kind = "map"
                /\ DOMAIN call[c].result.map = Requested(c)
                /\ \A d \in Requested(c) : call[c].result.map[d] = repo[d]
           ELSE /\ call[c].status = "failed"
                /\ call[c].result = NoResult
                /\ call[c].error = FirstOutcome(c).error

\* C4 witness: a disabled call for two DTMIs has returned.
C4_Witness ==
  \E c \in slots :
    /\ call[c].branch = "disabled"
    /\ call[c].status = "returned"
    /\ Cardinality(Requested(c)) = 2

\* C5: in mode enabled the keys of the map getModels returns are exactly the
\* DTMIs reachable from the requested ones.
C5_EnabledReturnsClosure ==
  \A c \in slots :
    (call[c].branch = "enabled" /\ call[c].status = "returned") =>
      /\ call[c].result.kind = "map"
      /\ DOMAIN call[c].result.map = ReachableFrom(Requested(c))

\* The mode the claims expect of a call: the call's option, else the
\* constructor's, else by whether a repository location was given.
ExpectedMode(option, options) ==
  IF option # Undefined THEN option
  ELSE IF options.dependencyResolution # Undefined THEN options.dependencyResolution
  ELSE IF options.repositoryLocation # Undefined THEN "enabled"
  ELSE "tryFromExpanded"

\* C6: the mode of a getModels call is the call's dependencyResolution option if
\* given, else the one given at construction, else enabled when a
\* repositoryLocation was given at construction and tryFromExpanded when not;
\* the call enters the branch of exactly that mode, and a settling resolve of
\* getModels resumes that branch and no other.
C6_ModeSelection ==
  [][\A c \in slots :
       /\ \A input \in DtmiInputs, option \in CallOptions :
            GetModels(c, input, option) =>
              /\ call'[c].dependencyResolution = ExpectedMode(option, client.options)
              /\ call'[c].branch = call'[c].dependencyResolution
              /\ call'[c].pc = "resolve"
       /\ (call[c].pc = "resolve" /\ call'[c] # call[c]) =>
            /\ call'[c].branch = call[c].branch
            /\ call'[c].dependencyResolution = call[c].dependencyResolution
            /\ \E fault \in BOOLEAN :
                 CASE call[c].dependencyResolution = "disabled" -> DisabledResume(c, fault)
                   [] call[c].dependencyResolution = "enabled" -> EnabledResume(c, fault)
                   [] OTHER -> TryFromExpandedResume(c, fault)]_vars

\* C6 witness: the client was constructed with a repository location and no
\* mode (default enabled), and a call overrides the mode with disabled.
C6_Witness ==
  \E c \in slots :
    /\ call[c].op = "getModels"
    /\ client.options.dependencyResolution = Undefined
    /\ client.options.repositoryLocation # Undefined
    /\ call[c].dependencyResolution = "disabled"
    /\ Settled(c)

SlotIds == {1, 2}

\* expand([A]) on the two-cycle: A extends B and, in the repository, B extends A.
TwoCycleCall(c) ==
  /\ call[c].op = "expand"
  /\ Len(call[c].models) = 1
  /\ call[c].models[1].id = "A"
  /\ Dependencies(call[c].models[1]) = {"B"}
  /\ StringDependencies(call[c].models[1]) = {"B"}
  /\ repo["B"] # Absent
  /\ StringDependencies(repo["B"]) = {"A"}

\* C7: provided every resolve call completes, an expand call that is awaiting
\* an _expand invocation eventually settles, whatever the dependency graph and
\* the order in which the resolves complete; and expand([A]) on the two-cycle
\* never assigns a key of its map twice and returns a map with exactly the keys
\* A and B.
C7_ExpandTerminates ==
  /\ \A c \in SlotIds :
       (c \in slots /\ call[c].pc = "expand") ~> (c \notin slots \/ call[c].pc = "done")
  /\ [](\A c \in slots :
          TwoCycleCall(c) =>
            /\ \A k \in DOMAIN writeCount[call[c].expandedMap] :
                 writeCount[call[c].expandedMap][k] = 1
            /\ call[c].status = "returned" =>
                 /\ DOMAIN call[c].result.map = {"A", "B"}
                 /\ DOMAIN writeCount[call[c].expandedMap] = {"A", "B"})

\* C7 witness: expand([A]) on the two-cycle has returned.
C7_Witness ==
  \E c \in slots : TwoCycleCall(c) /\ call[c].status = "returned"

\* C8: within one expand call every DTMI is passed to the resolver by at most
\* one _expand invocation, however the invocations started together interleave.
C8_ResolvedAtMostOnce ==
  \A c \in slots : \A d \in Dtmis : Cardinality(Resolvers(c, d)) <= 1

\* expand([A, B]) where both initial models reference x and x is not initial.
InitialDiamond(c, x) ==
  /\ call[c].expandedMap # 0
  /\ Len(call[c].models) = 2
  /\ Undefined \notin Ids(call[c].models)
  /\ x \notin Ids(call[c].models)
  /\ x \in StringDependencies(call[c].models[1])
  /\ x \in StringDependencies(call[c].models[2])

\* The resolve calls the _expand invocations of slot c issued that include x.
ExpandResolveCallsWith(c, x) ==
  { k \in ResolveCallsWith(c, x) : resolveLog[c][k].task # 0 }

\* C9: when two initial models both reference C, expand([A, B]) issues exactly
\* one resolve call that includes C, and the map it returns has C as a key.
C9_OneResolveCall ==
  \A c \in slots : \A x \in Dtmis :
    InitialDiamond(c, x) =>
      /\ Cardinality(ExpandResolveCallsWith(c, x)) = 1
      /\ ExpandReturned(c) => x \in DOMAIN call[c].result.map

\* C9 as amended: exactly one _expand invocation resolves a batch that includes
\* C; it issues one resolve call for it, or two when the first failed with a
\* RestError and the batch is resolved again with preferExpanded false; the map
\* returned has C as a key, assigned once.
C9_OneBatch ==
  \A c \in slots : \A x \in Dtmis :
    InitialDiamond(c, x) =>
      /\ Cardinality(Resolvers(c, x)) = 1
      /\ \A k \in ExpandResolveCallsWith(c, x) : resolveLog[c][k].task \in Resolvers(c, x)
      /\ Cardinality(ExpandResolveCallsWith(c, x)) \in {1, 2}
      /\ Cardinality(ExpandResolveCallsWith(c, x)) = 2 =>
           LET k == CHOOSE j \in ExpandResolveCallsWith(c, x) :
                      \A i \in ExpandResolveCallsWith(c, x) : i <= j
           IN /\ resolveLog[c][k].preferExpanded = "false"
              /\ tasks[c][resolveLog[c][k].task].attempt = "retry"
      /\ ExpandReturned(c) =>
           /\ x \in DOMAIN call[c].result.map
           /\ writeCount[call[c].expandedMap][x] = 1

\* C9 witness: expand([A, B]), A and B distinct and both referencing D, has
\* returned after the second model found D in the map.
C9_Witness ==
  \E c \in slots :
    /\ InitialDiamond(c, "D")
    /\ call[c].models[1].id # call[c].models[2].id
    /\ ExpandReturned(c)

\* The initial models of the expand call of slot c form a dependency-closed set:
\* distinct documents, every dependency of which is one of them.
ClosedInitial(c) ==
  /\ call[c].op = "expand"
  /\ Undefined \notin Ids(call[c].models)
  /\ Cardinality(Ids(call[c].models)) = Len(call[c].models)
  /\ \A i \in 1..Len(call[c].models) :
       /\ Dependencies(call[c].models[i]) \subseteq Ids(call[c].models)
       /\ \A e \in Range(_getModelDependencies(call[c].models[i])) : e.kind = "string"

\* C10: expand of a dependency-closed list of models, in any order, issues no
\* resolve at all and returns the map of exactly those models.
C10_Idempotent ==
  \A c \in slots :
    ClosedInitial(c) =>
      /\ resolveLog[c] = <<>>
      /\ call[c].status = "returned"
      /\ call[c].result.map =
           [d \in Ids(call[c].models) |->
              CHOOSE m \in Range(call[c].models) : m.id = d]

\* Slot c runs, or has run, expand: called directly or by getModels.
Expanding(c) == call[c].expandedMap # 0

\* Invocation t of slot c was rejected by its own resolve (it has no children:
\* they are started only after a resolve succeeded).
OwnFailure(c, t) ==
  /\ tasks[c][t].status = "failed"
  /\ \A u \in 1..Len(tasks[c]) : tasks[c][u].parent # t

\* Some resolve issued by an _expand invocation of slot c has failed.
SomeResolveFailed(c) ==
  \E t \in 1..Len(tasks[c]) : tasks[c][t].attempt = "retry" \/ OwnFailure(c, t)

C12_ExpandedReturnedDirectly ==
  \A c \in slots :
    call[c].branch = "tryFromExpanded" =>
      /\ Len(resolveLog[c]) = 1
      /\ resolveLog[c][1].dtmis = call[c].dtmis
      /\ resolveLog[c][1].preferExpanded = "true"
      /\ tasks[c] = <<>>
      /\ call[c].expandedMap = 0
      /\ (Settled(c) /\ FirstOutcome(c).ok) =>
           /\ call[c].status = "returned"
           /\ call[c].result = MapResult(MapOf(FirstOutcome(c).entries))

\* C12 witness: a tryFromExpanded call whose expanded resolve succeeded has
\* returned; the model it returns has a dependency, which stays unresolved.
C12_Witness ==
  \E c \in slots :
    /\ call[c].branch = "tryFromExpanded"
    /\ call[c].status = "returned"
    /\ call[c].result.kind = "map"
    /\ \E k \in DOMAIN call[c].result.map :
         StringDependencies(call[c].result.map[k]) # {}

RECURSIVE CodeClosure(_)
\* The DTMIs reached from the set S through the strings _getModelDependencies
\* returns for the documents of the repository.
CodeClosure(S) ==
  LET next == S \cup UNION { StringDependencies(repo[d]) : d \in S \cap Present(repo) }
  IN IF next = S THEN S ELSE CodeClosure(next)

\* C13: the map a successful expand returns is determined by the repository and
\* the initial models alone, so it is the same for every order in which the
\* outstanding resolve calls complete: its keys are the DTMIs reached from the
\* initial models and each key holds the repository's document.
C13_OrderIndependent ==
  \A c \in slots :
    ExpandReturned(c) =>
      call[c].result.map =
        [d \in CodeClosure(Ids(call[c].models)) |->
           IF \E i \in 1..Len(call[c].models) : call[c].models[i].id = d
           THEN (CHOOSE m \in Range(call[c].models) : m.id = d)
           ELSE repo[d]]

\* C13 witness: expand has returned after two resolve calls were outstanding
\* together and the younger one completed first (its children were started
\* before those of the older one).
C13_Witness ==
  \E c \in slots :
    /\ ExpandReturned(c)
    /\ \E u, v \in 1..Len(tasks[c]) :
         /\ u < v
         /\ tasks[c][v].parent # 0
         /\ tasks[c][u].parent > tasks[c][v].parent

\* C14: every initial model is in the map under its @id before any dependency
\* is resolved, and expand never passes the @id of an initial model to the
\* resolver.
C14_SeedingFirst ==
  \A c \in slots :
    (Expanding(c) /\ Undefined \notin Ids(call[c].models)) =>
      /\ (\E k \in 1..Len(resolveLog[c]) : resolveLog[c][k].task # 0) =>
           Ids(call[c].models) \subseteq DOMAIN heap[call[c].expandedMap]
      /\ \A d \in Ids(call[c].models) : ExpandResolveCallsWith(c, d) = {}

\* C15: during one expand call every key of its map is assigned at most once,
\* by a seed or by the merge of a resolve result.
C15_WriteOnce ==
  \A c \in slots :
    Expanding(c) =>
      \A k \in DOMAIN writeCount[call[c].expandedMap] :
        writeCount[call[c].expandedMap][k] <= 1

\* The failure reported by a resolve that asked for the expanded document and
\* did not find it.
ExpandedNotAvailable(outcome) ==
  /\ ~outcome.ok
  /\ outcome.error.name = "NotFound"
  /\ outcome.error.expanded

\* In this step _expand invocation t of slot c, awaiting its first resolve,
\* issues its second one.
Retries(c, t) ==
  /\ t \in Outstanding(c)
  /\ tasks[c][t].attempt = "first"
  /\ t <= Len(tasks'[c])
  /\ tasks'[c][t].attempt = "retry"

\* The outcome of the resolve that settles in this step for invocation t.
SettlingOutcome(c, t) == Outcome(LastResolveOf(c, t), faults' > faults)

\* C16: during expansion, that of getModels in mode enabled included, the first
\* resolve of every batch asks for the expanded documents, and the batch is
\* resolved again, not expanded, only when that first resolve reported the
\* expanded document not available.
C16_ExpandedFirst ==
  [][\A c \in slots :
       /\ \A k \in 1..Len(resolveLog'[c]) :
            (k > Len(resolveLog[c]) /\ resolveLog'[c][k].task # 0) =>
              IF tasks'[c][resolveLog'[c][k].task].attempt = "first"
              THEN resolveLog'[c][k].preferExpanded = "true"
              ELSE resolveLog'[c][k].preferExpanded = "false"
       /\ \A t \in 1..Len(tasks[c]) :
            Retries(c, t) => ExpandedNotAvailable(SettlingOutcome(c, t))]_vars

\* The resolve calls issued by invocation t of slot c, oldest first.
CallsOf(c, t) ==
  SelectSeq(resolveLog[c], LAMBDA rc : rc.task = t)

\* C17: in _expand a resolve that fails otherwise than with the expanded
\* document not available is not followed by a second resolve of the batch: the
\* invocation is rejected with that error; and no batch is resolved twice with
\* preferExpanded false.
C17_NoRetryAfterFailure ==
  [][\A c \in slots : \A t \in 1..Len(tasks[c]) :
       /\ (/\ t \in Outstanding(c)
           /\ t <= Len(tasks'[c])
           /\ tasks'[c][t] # tasks[c][t]
           /\ ~SettlingOutcome(c, t).ok
           /\ ~ExpandedNotAvailable(SettlingOutcome(c, t))) =>
            /\ CallsOf(c, t)' = CallsOf(c, t)
            /\ tasks'[c][t].status = "failed"
            /\ tasks'[c][t].error = SettlingOutcome(c, t).error
       /\ t <= Len(tasks'[c]) =>
            Cardinality({ k \in 1..Len(CallsOf(c, t)') :
                            ~Truthy(CallsOf(c, t)'[k].preferExpanded) }) <= 1]_vars

\* The string schemas of the Component elements of a document.
ComponentSchemas(model) ==
  { model.contents[i].schema :
      i \in { j \in 1..Len(model.contents) :
                /\ model.contents[j].type = "Component"
                /\ IsString(model.contents[j].schema) } }

\* `extends` is a string or a sequence of strings.
StringExtends(model) ==
  \/ model.extends.kind = "string"
  \/ /\ model.extends.kind = "array"
     /\ \A i \in 1..Len(model.extends.items) : model.extends.items[i].kind = "string"

\* The strings of such an `extends`.
ExtendsStrings(model) ==
  IF model.extends.kind = "string" THEN {model.extends.str}
  ELSE { model.extends.items[i].str : i \in 1..Len(model.extends.items) }

\* Slot c runs expand of one document; Parsed(c) is what _getModelDependencies
\* returned for it (no dependency of the documents drawn is the document's own
\* @id, the one key of the map at that point).
ParsedOne(c) ==
  /\ call[c].op = "expand"
  /\ Len(call[c].models) = 1
  /\ tasks[c] # <<>>
Parsed(c) == tasks[c][1].deps

\* C18: for a document whose `extends` is a string or a sequence of strings,
\* _getModelDependencies returns, each once, the string schemas of the contents
\* elements whose @type is "Component" and the strings of `extends`, and nothing
\* else.
C18_DirectDependencies ==
  \A c \in slots :
    (ParsedOne(c) /\ StringExtends(call[c].models[1])) =>
      LET model == call[c].models[1]
          expected == ComponentSchemas(model) \cup ExtendsStrings(model)
      IN /\ \A i \in 1..Len(Parsed(c)) : Parsed(c)[i].kind = "string"
         /\ { Parsed(c)[i].str : i \in 1..Len(Parsed(c)) } = expected
         /\ Len(Parsed(c)) = Cardinality(expected)

\* C18 witness: a document with a Component schema B, an element of another
\* @type, and `extends` [B, C] has been parsed.
C18_Witness ==
  \E c \in slots :
    /\ ParsedOne(c)
    /\ call[c].models[1].extends = ExtArray(<<ExtString("B"), ExtString("C")>>)
    /\ call[c].models[1].contents = <<Element("Property", "B"), Element("Component", "B")>>
    /\ Len(Parsed(c)) = 2

\* Some inline object appears in `extends`, alone or in the sequence.
InlineExtends(model) ==
  \/ model.extends.kind = "object"
  \/ /\ model.extends.kind = "array"
     /\ \E i \in 1..Len(model.extends.items) : model.extends.items[i].kind = "object"

\* C19: for a document with an inline object in `extends`, the object's own
\* dependencies are in the returned set as DTMI strings, beside the document's
\* other dependencies, and every element returned is a string.
C19_InlineObjects ==
  \A c \in slots :
    (ParsedOne(c) /\ InlineExtends(call[c].models[1])) =>
      /\ \A i \in 1..Len(Parsed(c)) : Parsed(c)[i].kind = "string"
      /\ { Parsed(c)[i] : i \in 1..Len(Parsed(c)) } =
           { DepString(d) : d \in Dependencies(call[c].models[1]) }

\* The dependencies invocation t of slot c left out of its resolve because they
\* were keys of the map already.
Skipped(c, t) ==
  IF tasks[c][t].model \in Present(repo)
  THEN StringDependencies(repo[tasks[c][t].model]) \ ResolvedBy(c, t)
  ELSE {}

\* C20: when expand returns its map every _expand invocation the call started is
\* fulfilled and none of its resolves is outstanding; a DTMI an invocation
\* skipped, another having put it in the map, has by then its own dependencies
\* in the map too.
C20_FanInBarrier ==
  \A c \in slots :
    ExpandReturned(c) =>
      /\ \A t \in 1..Len(tasks[c]) : tasks[c][t].status = "done"
      /\ Outstanding(c) = {}
      /\ \A t \in 1..Len(tasks[c]) : \A d \in Skipped(c, t) :
           /\ d \in DOMAIN call[c].result.map
           /\ StringDependencies(call[c].result.map[d]) \subseteq DOMAIN call[c].result.map

\* C20 witness: expand has returned; one invocation had skipped a DTMI and was
\* over while a resolve of another branch was still to come.
C20_Witness ==
  \E c \in slots :
    /\ ExpandReturned(c)
    /\ \E t, u \in 1..Len(tasks[c]) :
         /\ t < u
         /\ Skipped(c, t) # {}
         /\ tasks[c][t].parent # 0
         /\ tasks[c][u].parent # 0
         /\ tasks[c][u].parent # t
         /\ ResolvedBy(c, u) # {}

\* C21: two expand calls in flight together never work on the same map object,
\* every _expand invocation of a call writes to the map of its own call, and
\* the map of a call holds, at every moment and when returned, only its own
\* initial models and DTMIs reachable from them.
C21_Isolation ==
  \A c \in slots :
    Expanding(c) =>
      /\ \A o \in slots \ {c} : call[o].expandedMap # call[c].expandedMap
      /\ \A t \in 1..Len(tasks[c]) : tasks[c][t].modelMap = call[c].expandedMap
      /\ DOMAIN heap[call[c].expandedMap] \subseteq CodeClosure(Ids(call[c].models))
      /\ ExpandReturned(c) =>
           call[c].result.map =
             [d \in CodeClosure(Ids(call[c].models)) |-> repo[d]]

\* C21 witness: one call has returned a map without A while the other, started
\* with A, is still awaiting a resolve.
C21_Witness ==
  \E c, o \in slots :
    /\ ExpandReturned(c)
    /\ "A" \notin DOMAIN call[c].result.map
    /\ call[o].pc = "expand"
    /\ Outstanding(o) # {}
    /\ "A" \in DOMAIN heap[call[o].expandedMap]

\* C22: a dependency whose case-folded form is that of a key of the map is not
\* passed to the resolver by the first resolve of an _expand invocation, and the
\* map never holds two keys with the same case-folded form.
C22_CaseInsensitive ==
  /\ [](\A c \in slots :
          Expanding(c) =>
            \A j, k \in DOMAIN heap[call[c].expandedMap] :
              CaseFold(j) = CaseFold(k) => j = k)
  /\ [][\A c \in slots : \A n \in 1..Len(resolveLog'[c]) :
          (/\ n > Len(resolveLog[c])
           /\ resolveLog'[c][n].task # 0
           /\ tasks'[c][resolveLog'[c][n].task].attempt = "first") =>
            \A i \in 1..Len(resolveLog'[c][n].dtmis) :
              resolveLog'[c][n].dtmis[i].kind = "string" =>
                \A k \in DOMAIN heap'[call'[c].expandedMap] :
                  CaseFold(k) # CaseFold(resolveLog'[c][n].dtmis[i].str)]_vars

\* C23: once expand has reported a failure to its caller, the call issues no
\* further resolve and assigns nothing more to its map.
C23_AbortOnFailure ==
  [][\A c \in slots :
       (/\ Expanding(c)
        /\ call[c].status = "failed"
        /\ call'[c] = call[c]) =>
         /\ resolveLog'[c] = resolveLog[c]
         /\ writeCount'[call[c].expandedMap] = writeCount[call[c].expandedMap]
         /\ heap'[call[c].expandedMap] = heap[call[c].expandedMap]]_vars

\* The index of the first model without @id.
FirstMissing(models) ==
  CHOOSE i \in 1..Len(models) :
    /\ models[i].id = Undefined
    /\ \A j \in 1..(i - 1) : models[j].id # Undefined

\* The _expand invocations the loop of expand started, in order.
RootsOf(c) == SelectSeq(tasks[c], LAMBDA task : task.parent = 0)

\* C24: an expand call one of whose initial models has no @id never returns a
\* map and never processes that model or a later one; when it fails on the
\* missing @id every earlier model is a key of its map, the invocations started
\* for the earlier models are all over, and their dependencies are keys too.
C24_MissingId ==
  \A c \in slots :
    (Expanding(c) /\ Undefined \in Ids(call[c].models)) =>
      LET models == call[c].models
          i == FirstMissing(models)
          map == heap[call[c].expandedMap]
          roots == RootsOf(c)
      IN /\ call[c].status # "returned"
         /\ call[c].result = NoResult
         /\ Settled(c) => call[c].status = "failed"
         /\ call[c].pc = "expand" => call[c].i < i
         /\ Len(roots) <= i - 1
         /\ \A k \in 1..Len(roots) : roots[k].model = models[k].id
         /\ DOMAIN map \subseteq
              { models[j].id : j \in 1..(i - 1) } \cup
              UNION { ResolvedBy(c, t) : t \in 1..Len(tasks[c]) }
         /\ (call[c].status = "failed" /\ call[c].error.name = "MissingId") =>
              /\ call[c].i = i
              /\ Len(roots) = i - 1
              /\ \A t \in 1..Len(tasks[c]) : tasks[c][t].status = "done"
              /\ \A j \in 1..(i - 1) :
                   /\ models[j].id \in DOMAIN map
                   /\ map[models[j].id] = models[j]
                   /\ Dependencies(models[j]) \subseteq DOMAIN map

\* C25: the client's configured dependencyResolution and repositoryLocation are
\* the ones its construction fixed and no step changes them, whatever calls
\* are made and however they end; a per-call option reaches its own call only:
\* a call without the option runs in the configured mode.
C25_ConfigurationFixed ==
  /\ [](client = Constructor(client.options))
  /\ [][/\ client'._dependencyResolution = client._dependencyResolution
        /\ client'._repositoryLocation = client._repositoryLocation
        /\ client' = client
        /\ \A c \in slots, input \in DtmiInputs, option \in CallOptions :
             GetModels(c, input, option) =>
               /\ option = Undefined =>
                    call'[c].dependencyResolution = client._dependencyResolution
               /\ option # Undefined => call'[c].dependencyResolution = option
               /\ \A other \in slots \ {c} : call'[other] = call[other]]_vars

\* A call that carried an option other than the configured mode has failed, and
\* the configured mode is still the constructor's.
C25_Witness ==
  \E c \in slots :
    /\ call[c].op = "getModels"
    /\ call[c].status = "failed"
    /\ call[c].dependencyResolution # client._dependencyResolution
    /\ client._dependencyResolution =
         ExpectedMode(Undefined, client.options)

\* C26: when the synchronous expand has returned, every DTMI it passed to the
\* resolver is a key of the map it returned, and no DTMI was passed to the
\* resolver twice (a dependency resolved in one branch is present for the
\* branches that come after).
C26_SyncMergeShared ==
  \A c \in slots :
    ExpandReturned(c) =>
      \A d \in Dtmis :
        /\ ResolveCallsWith(c, d) # {} => d \in DOMAIN call[c].result.map
        /\ Cardinality(ResolveCallsWith(c, d)) <= 1

====
